---------------------------- MODULE Spec2Model ----------------------------
(***************************************************************************)
(* Model of the crypto signal bot (src/telegram_bot.js) and of the HTTP    *)
(* snapshot responders (src/api/handler.js, src/unnamed/part_000,          *)
(* src/unnamed/part_001).                                                  *)
(*                                                                         *)
(* Percent changes and prices are integers in hundredths (5 % is 500,      *)
(* 87.71 is 8771).                                                         *)
(*                                                                         *)
(* JavaScript runs each callback to its next await without interruption.   *)
(* The variable running holds the tick whose synchronous code is executing *)
(* (0 when the event loop is free); every other callback waits for 0.      *)
(***************************************************************************)
EXTENDS Integers, Sequences, FiniteSets, TLC

VARIABLES
    mainPc,      \* main(): "startup" (awaiting the startup send), "running", "aborted"
    pc,          \* per interval callback: "waiting", "loop", "awaitAlert", "minute", "awaitSummary", "done", "aborted"
    idx,         \* per interval callback: position in Object.entries(prices), 1-based
    alertSent,   \* per interval callback: the local alertSent
    running,     \* the callback whose synchronous code is executing, 0 if none
    lastAlert,   \* the cooldown table: a JS object, key -> BOOLEAN
    timers,      \* pending setTimeout callbacks: records [key, by]
    ev,          \* observation: what the latest step did (a checkAlert call, a send
                 \* that returned, an unarm timer that ran)
    elapsed,     \* observation: keys whose cooldown has run out at least once
    attempts,    \* observation: alert sends started per key since its cooldown last ran out
    armer,       \* observation: per key, the callback whose checkAlert call last returned
                 \* true, 0 once an unarm timer of the key has run since
    spikes,      \* changes of at least alertPercent the feed has produced so far
    msg,         \* per interval callback: the message being sent (the local msg)
    phase,       \* the request in hand: "idle", "fetching", "done", "threw"
    req,         \* the request: [variant, method, url]
    todo,        \* symbols whose fetch has not been started (awaited one at a time)
    inflight,    \* symbols whose fetch is in flight
    got,         \* symbol -> what its fetch resolved to
    resp,        \* the response: [status, acao, body, fetched]
    fmt,         \* the latest formatMessage call: [coin, change, text]
    cls          \* the latest classification: two change values and what the
                 \* classifiers return for them

botVars == <<mainPc, pc, idx, alertSent, running, lastAlert, timers,
             ev, elapsed, attempts, armer, msg, spikes>>

apiVars == <<phase, req, todo, inflight, got, resp>>

pureVars == <<fmt, cls>>

vars == <<botVars, apiVars, pureVars>>

----------------------------------------------------------------------------
(* Bounds *)

\* Interval callbacks the model lets fire (they may all overlap).
MaxTicks == 2

\* Changes of at least alertPercent the feed produces in a run.
MaxSpikes == 2

\* formatMessage is applied to every change from -MaxChange to MaxChange
\* (hundredths of a percent).
MaxChange == 700

\* The classifiers are applied to every change from -MaxSwing to MaxSwing
\* (hundredths of a percent), and to NaN.
MaxSwing == 1100

Ticks == 1..MaxTicks

----------------------------------------------------------------------------
(* src/telegram_bot.js: configuration and data *)

alertPercent == 500
warningPercent == 300

\* Object.entries(prices), in insertion order.
Coins == <<"BTC", "ETH", "SOL">>

\* The change values a checkAlert call may be given.  prices is a mutable
\* table standing for an exchange feed, so each call reads an arbitrary one
\* of these; -141 is the value the table is created with for BTC.
Changes == {-620, -500, -141, 0, 499, 500}

\* new Date().getMinutes() as read by a tick.
Minutes == {0, 7, 30}

Abs(x) == IF x < 0 THEN -x ELSE x

\* `${coin}_${data.change > 0 ? 'up' : 'down'}`
KeyOf(coin, change) == coin \o (IF change > 0 THEN "_up" ELSE "_down")

Keys == {KeyOf(Coins[i], c) : i \in 1..Len(Coins), c \in {-1, 1}}

\* obj[key] read in a boolean context: a missing property is undefined, falsy.
Truthy(obj, key) == key \in DOMAIN obj /\ obj[key]

\* obj[key] = v
Put(obj, key, v) == [k \in DOMAIN obj \cup {key} |-> IF k = key THEN v ELSE obj[k]]

----------------------------------------------------------------------------
(* src/telegram_bot.js: functions *)

checkAlert_noGuard(coin, change, table) ==
    LET key == KeyOf(coin, change) IN
    IF Abs(change) >= alertPercent
    THEN [ret |-> TRUE, table |-> Put(table, key, TRUE), schedule |-> {key}]
    ELSE [ret |-> FALSE, table |-> table, schedule |-> {}]

checkAlert_noTimer(coin, change, table) ==
    LET key == KeyOf(coin, change) IN
    IF Abs(change) >= alertPercent /\ ~Truthy(table, key)
    THEN [ret |-> TRUE, table |-> Put(table, key, TRUE), schedule |-> {}]
    ELSE [ret |-> FALSE, table |-> table, schedule |-> {}]

checkAlert_strict(coin, change, table) ==
    LET key == KeyOf(coin, change) IN
    IF Abs(change) > alertPercent /\ ~Truthy(table, key)
    THEN [ret |-> TRUE, table |-> Put(table, key, TRUE), schedule |-> {key}]
    ELSE [ret |-> FALSE, table |-> table, schedule |-> {}]

\* checkAlert that leaves the arming to its caller, after the awaited send:
\* the test and the set are no longer one uninterrupted step.
checkAlert_armLater(coin, change, table) ==
    LET key == KeyOf(coin, change) IN
    IF Abs(change) >= alertPercent /\ ~Truthy(table, key)
    THEN [ret |-> TRUE, table |-> table, schedule |-> {key}]
    ELSE [ret |-> FALSE, table |-> table, schedule |-> {}]

\* checkAlert that tests the entries of both directions of the coin.
checkAlert_anyDirection(coin, change, table) ==
    LET key == KeyOf(coin, change) IN
    IF Abs(change) >= alertPercent
       /\ ~Truthy(table, coin \o "_up") /\ ~Truthy(table, coin \o "_down")
    THEN [ret |-> TRUE, table |-> Put(table, key, TRUE), schedule |-> {key}]
    ELSE [ret |-> FALSE, table |-> table, schedule |-> {}]

\* checkAlert(coin, data): the return value, the table after the call and the
\* keys for which an unarm timer is scheduled.
checkAlert(coin, change, table) ==
    LET key == KeyOf(coin, change) IN
    IF Abs(change) >= alertPercent /\ ~Truthy(table, key)
    THEN [ret |-> TRUE, table |-> Put(table, key, TRUE), schedule |-> {key}]
    ELSE [ret |-> FALSE, table |-> table, schedule |-> {}]

sendTelegram_noCatch(outcome) ==
    IF outcome = "ok"
    THEN [ret |-> TRUE, thrown |-> FALSE]
    ELSE [ret |-> FALSE, thrown |-> TRUE]

\* sendTelegram(text): outcome is what axios.post did ("ok" or "error").
sendTelegram(outcome) ==
    IF outcome = "ok"
    THEN [ret |-> TRUE, thrown |-> FALSE]
    ELSE [ret |-> FALSE, thrown |-> FALSE]

Outcomes == {"ok", "error"}

afterAlertSend_retry(ret) ==
    IF ret THEN [pc |-> "loop", step |-> 1] ELSE [pc |-> "awaitAlert", step |-> 0]

\* What the loop does once `await sendTelegram(msg)` has returned ret: the
\* value is discarded, alertSent is set and the loop goes on to the next coin.
afterAlertSend(ret) == [pc |-> "loop", step |-> 1]

formatMessage_swapped(coin, change) ==
    [coin   |-> coin,
     emoji  |-> IF change > 0 THEN "up" ELSE "down",
     sign   |-> IF change > 0 THEN "+" ELSE "",
     status |-> IF Abs(change) >= warningPercent THEN "warning"
                ELSE IF Abs(change) >= alertPercent THEN "alert"
                ELSE "normal"]

\* formatMessage(coin, data): the parts of the text that depend on change.
\* status is "alert" for the siren label, "warning" for the warning-sign
\* label and "normal" for the check-mark label.
formatMessage(coin, change) ==
    [coin   |-> coin,
     emoji  |-> IF change > 0 THEN "up" ELSE "down",
     sign   |-> IF change > 0 THEN "+" ELSE "",
     status |-> IF Abs(change) >= alertPercent THEN "alert"
                ELSE IF Abs(change) >= warningPercent THEN "warning"
                ELSE "normal"]

----------------------------------------------------------------------------
(* src/telegram_bot.js: the process *)

NoEv == [kind |-> "none"]
NoMsg == [coin |-> "", emoji |-> "", sign |-> "", status |-> ""]

\* NaN as a quotient (see Num below): 0 / 0.
NaN == [sum |-> 0, n |-> 0]

\* No classification made yet.
NoLabel == [label |-> "", emoji |-> ""]
NoCls == [done |-> FALSE, change |-> NaN, other |-> NaN,
          handler |-> NoLabel, part_000 |-> NoLabel, part_001 |-> NoLabel,
          otherHandler |-> NoLabel, otherPart_000 |-> NoLabel,
          otherPart_001 |-> NoLabel, action |-> "", risk |-> ""]

\* The cooldown key of the alert a message was formatted for.
MsgKey(m) == m.coin \o "_" \o m.emoji

Pending(key) == {tm \in timers : tm.key = key}

Init ==
    /\ mainPc = "startup"
    /\ pc = [t \in Ticks |-> "waiting"]
    /\ idx = [t \in Ticks |-> 1]
    /\ alertSent = [t \in Ticks |-> FALSE]
    /\ running = 0
    /\ lastAlert = [c \in {"BTC", "ETH", "SOL"} |-> FALSE]
    /\ timers = {}
    /\ ev = NoEv
    /\ elapsed = {}
    /\ attempts = [k \in Keys |-> 0]
    /\ armer = [k \in Keys |-> 0]
    /\ msg = [t \in Ticks |-> NoMsg]
    /\ spikes = 0
    /\ phase = "idle"
    /\ req = [variant |-> "", method |-> "", url |-> [defined |-> FALSE]]
    /\ todo = <<>>
    /\ inflight = {}
    /\ got = <<>>
    /\ resp = [status |-> 0]
    /\ fmt = [coin |-> "", change |-> 0, text |-> NoMsg]
    /\ cls = NoCls

\* main(): `await sendTelegram(startup text)` returns, then setInterval is set.
StartupSendDone ==
    /\ UNCHANGED <<apiVars, pureVars>>
    /\ mainPc = "startup"
    /\ running = 0
    /\ \E o \in Outcomes :
         LET r == sendTelegram(o) IN
         /\ mainPc' = IF r.thrown THEN "aborted" ELSE "running"
         /\ ev' = [kind |-> "send", what |-> "startup", tick |-> 0, key |-> "",
                   outcome |-> o, ret |-> r.ret, thrown |-> r.thrown,
                   idxBefore |-> 0]
    /\ UNCHANGED <<pc, idx, alertSent, running, lastAlert, timers,
                   elapsed, attempts, armer, msg, spikes>>

\* The 300000 ms interval fires: the next callback starts.
IntervalFire(t) ==
    /\ UNCHANGED <<apiVars, pureVars>>
    /\ mainPc = "running"
    /\ running = 0
    /\ pc[t] = "waiting"
    /\ \A u \in Ticks : u < t => pc[u] # "waiting"
    /\ pc' = [pc EXCEPT ![t] = "loop"]
    /\ idx' = [idx EXCEPT ![t] = 1]
    /\ alertSent' = [alertSent EXCEPT ![t] = FALSE]
    /\ running' = t
    /\ ev' = NoEv
    /\ UNCHANGED <<mainPc, lastAlert, timers, elapsed, attempts, armer, msg, spikes>>

\* One iteration of `for (const [coin, data] of Object.entries(prices))`:
\* checkAlert, and when it returns true the message is formatted and the
\* send begins (the callback is suspended in `await sendTelegram(msg)`).
LoopStep(t) ==
    /\ UNCHANGED <<apiVars, pureVars>>
    /\ pc[t] = "loop"
    /\ running = t
    /\ idx[t] <= Len(Coins)
    /\ \E change \in Changes :
         LET coin == Coins[idx[t]]
             key  == KeyOf(coin, change)
             r    == checkAlert(coin, change, lastAlert)
         IN
         /\ Abs(change) >= alertPercent => spikes < MaxSpikes
         /\ spikes' = IF Abs(change) >= alertPercent THEN spikes + 1 ELSE spikes
         /\ lastAlert' = r.table
         /\ timers' = timers \cup {[key |-> k, by |-> t] : k \in r.schedule}
         /\ armer' = IF r.ret THEN [armer EXCEPT ![key] = t] ELSE armer
         /\ ev' = [kind |-> "call", tick |-> t, coin |-> coin, change |-> change,
                   key |-> key, ret |-> r.ret,
                   pending |-> Cardinality(Pending(key)),
                   armerBefore |-> armer[key],
                   elapsed |-> key \in elapsed,
                   armedAfter |-> Truthy(r.table, key)]
         /\ IF r.ret
            THEN /\ pc' = [pc EXCEPT ![t] = "awaitAlert"]
                 /\ msg' = [msg EXCEPT ![t] = formatMessage(coin, change)]
                 /\ running' = 0
                 /\ attempts' = [attempts EXCEPT ![key] = @ + 1]
                 /\ idx' = idx
            ELSE /\ pc' = pc
                 /\ msg' = msg
                 /\ running' = t
                 /\ attempts' = attempts
                 /\ idx' = [idx EXCEPT ![t] = @ + 1]
    /\ UNCHANGED <<mainPc, alertSent, elapsed>>

\* `await sendTelegram(msg)` of an alert returns; the loop resumes.
AlertSendDone(t) ==
    /\ UNCHANGED <<apiVars, pureVars>>
    /\ pc[t] = "awaitAlert"
    /\ running = 0
    /\ \E o \in Outcomes :
         LET r    == sendTelegram(o)
             next == afterAlertSend(r.ret)
             key  == MsgKey(msg[t])
         IN
         /\ ev' = [kind |-> "send", what |-> "alert", tick |-> t, key |-> key,
                   outcome |-> o, ret |-> r.ret, thrown |-> r.thrown,
                   idxBefore |-> idx[t]]
         /\ IF r.thrown
            THEN /\ pc' = [pc EXCEPT ![t] = "aborted"]
                 /\ UNCHANGED <<idx, alertSent, running, attempts, msg>>
            ELSE /\ pc' = [pc EXCEPT ![t] = next.pc]
                 /\ idx' = [idx EXCEPT ![t] = @ + next.step]
                 /\ alertSent' = [alertSent EXCEPT ![t] = TRUE]
                 /\ running' = IF next.pc = "loop" THEN t ELSE 0
                 /\ attempts' = IF next.pc = "awaitAlert"
                                THEN [attempts EXCEPT ![key] = @ + 1]
                                ELSE attempts
                 /\ msg' = IF next.pc = "awaitAlert" THEN msg ELSE [msg EXCEPT ![t] = NoMsg]
    /\ UNCHANGED <<mainPc, lastAlert, timers, elapsed, armer, spikes>>

\* `minute === 0` alone.
summaryDue_hourly(minute) == minute = 0

\* `minute === 0 || minute === 30`
summaryDue(minute) == minute = 0 \/ minute = 30

\* The loop is over: `minute = new Date().getMinutes()`; at minute 0 or 30
\* the summary send begins, otherwise the callback returns.
LoopExit(t) ==
    /\ UNCHANGED <<apiVars, pureVars>>
    /\ pc[t] = "loop"
    /\ running = t
    /\ idx[t] > Len(Coins)
    /\ \E minute \in Minutes :
         /\ pc' = [pc EXCEPT ![t] = IF summaryDue(minute)
                                    THEN "awaitSummary" ELSE "done"]
         /\ ev' = [kind |-> "exit", tick |-> t, minute |-> minute,
                   alertSent |-> alertSent[t]]
    /\ running' = 0
    /\ idx' = [idx EXCEPT ![t] = 1]
    /\ alertSent' = [alertSent EXCEPT ![t] = FALSE]
    /\ UNCHANGED <<mainPc, lastAlert, timers,
                   elapsed, attempts, armer, msg, spikes>>

\* `await sendTelegram(formatSummary())` returns; the callback returns.
SummarySendDone(t) ==
    /\ UNCHANGED <<apiVars, pureVars>>
    /\ pc[t] = "awaitSummary"
    /\ running = 0
    /\ \E o \in Outcomes :
         LET r == sendTelegram(o) IN
         /\ ev' = [kind |-> "send", what |-> "summary", tick |-> t, key |-> "",
                   outcome |-> o, ret |-> r.ret, thrown |-> r.thrown,
                   idxBefore |-> 0]
         /\ pc' = [pc EXCEPT ![t] = IF r.thrown THEN "aborted" ELSE "done"]
    /\ UNCHANGED <<mainPc, idx, alertSent, running, lastAlert, timers,
                   elapsed, attempts, armer, msg, spikes>>

\* A cooldown timer runs: `() => { lastAlert[key] = false; }`.
TimerFire(tm) ==
    /\ UNCHANGED <<apiVars, pureVars>>
    /\ tm \in timers
    /\ running = 0
    /\ lastAlert' = Put(lastAlert, tm.key, FALSE)
    /\ timers' = timers \ {tm}
    /\ ev' = [kind |-> "fire", key |-> tm.key, by |-> tm.by,
              armer |-> armer[tm.key], armed |-> Truthy(lastAlert, tm.key)]
    /\ elapsed' = elapsed \cup {tm.key}
    /\ attempts' = [attempts EXCEPT ![tm.key] = 0]
    /\ armer' = [armer EXCEPT ![tm.key] = 0]
    /\ UNCHANGED <<mainPc, pc, idx, alertSent, running, msg, spikes>>

BotNext ==
    \/ StartupSendDone
    \/ \E t \in Ticks : IntervalFire(t)
    \/ \E t \in Ticks : LoopStep(t)
    \/ \E t \in Ticks : AlertSendDone(t)
    \/ \E t \in Ticks : LoopExit(t)
    \/ \E t \in Ticks : SummarySendDone(t)
    \/ \E tm \in timers : TimerFire(tm)

----------------------------------------------------------------------------
(* The snapshot responders: data *)

\* A number that may be NaN: the quotient sum / n, NaN when n = 0 (the
\* average of no values is 0 / 0).  NaN fails every comparison.
Num(x) == [sum |-> x, n |-> 1]
Gt(a, c) == a.n > 0 /\ a.sum > c * a.n
Ge(a, c) == a.n > 0 /\ a.sum >= c * a.n
Lt(a, c) == a.n > 0 /\ a.sum < c * a.n
AbsGt(a, c) == a.n > 0 /\ Abs(a.sum) > c * a.n

\* null
Null == [null |-> TRUE]

RECURSIVE SumChange(_)
SumChange(coins) ==
    IF coins = <<>> THEN 0 ELSE Head(coins).change + SumChange(Tail(coins))

\* coins.reduce((sum, c) => sum + c.change, 0) / coins.length
Average(coins) == [sum |-> SumChange(coins), n |-> Len(coins)]

\* [a, b, ...].filter(Boolean)
FilterBoolean(list) == SelectSeq(list, LAMBDA c : c # Null)

\* What a ticker request can come to: a network error, a body that is not
\* JSON, JSON without the ticker fields (an exchange error object), or a
\* ticker with lastPrice 70123.45 and one of three priceChangePercent.
LiveChanges == {-620, 250, 620}
FetchOutcomes ==
    {[kind |-> "error"], [kind |-> "badjson"], [kind |-> "nofields"]}
    \cup {[kind |-> "ticker", lastPrice |-> 7012345, priceChangePercent |-> c] :
            c \in LiveChanges}

fetchBinanceData_reject(symbol, o) ==
    IF o.kind = "ticker"
    THEN [symbol |-> symbol, price |-> o.lastPrice, change |-> o.priceChangePercent]
    ELSE IF o.kind = "nofields"
    THEN [symbol |-> symbol, price |-> 0, change |-> 0]
    ELSE [rejected |-> TRUE]

\* fetchBinanceData(symbol) of handler.js, fetchBinance(symbol) of part_000
\* and part_001: parseFloat(field) || 0 of the ticker fields, null on a
\* network error or a parse error.  (handler.js also carries high, low and
\* volume, which nothing reads.)
fetchBinanceData(symbol, o) ==
    IF o.kind = "ticker"
    THEN [symbol |-> symbol, price |-> o.lastPrice, change |-> o.priceChangePercent]
    ELSE IF o.kind = "nofields"
    THEN [symbol |-> symbol, price |-> 0, change |-> 0]
    ELSE Null

\* btc?.change || 0
ChangeOrZero(coin) == IF coin = Null THEN 0 ELSE coin.change

\* (req.url || '/').split('?')[0], the path as its '/'-separated segments:
\* '/' is <<"", "">>, '' is <<"">>, '/api/status' is <<"", "api", "status">>.
\* A url is undefined or [defined, path, query]: '' with no query is falsy.
PathOf(url) ==
    IF ~url.defined \/ (url.path = <<"">> /\ ~url.query)
    THEN <<"", "">>
    ELSE url.path

\* url.startsWith('/api/')
StartsWithApi(path) == Len(path) >= 3 /\ path[1] = "" /\ path[2] = "api"

Root == <<"", "">>
Empty == <<"">>
Slash(a) == <<"", a>>
Api(a) == <<"", "api", a>>

\* Request urls: every path without a query, a few with one ('?x' alone
\* gives the empty path), and a request without a url.
Urls ==
    {[defined |-> FALSE]}
    \cup {[defined |-> TRUE, path |-> p, query |-> FALSE] :
            p \in {Root, Empty, Slash("health"), Slash("foo"), Api("foo"),
                   Api("status"), Slash("status"), Api("market"), Slash("market"),
                   Api("signals"), Slash("signals"), Api("analysis"),
                   Slash("analysis"), Api("config"), Slash("config")}}
    \cup {[defined |-> TRUE, path |-> p, query |-> TRUE] :
            p \in {Root, Empty, Api("status"), Slash("foo")}}

Methods == {"GET", "POST", "OPTIONS"}

\* The four responders of the repository.
Variants == {"handler.js:exports", "handler.js:handler", "part_000", "part_001"}

----------------------------------------------------------------------------
(* src/api/handler.js: helper functions *)

getSentiment(change) ==
    IF Ge(change, 500) THEN [label |-> "EUPHORIA", emoji |-> "rocket"]
    ELSE IF Ge(change, 200) THEN [label |-> "OPTIMISTIC", emoji |-> "smile"]
    ELSE IF Ge(change, -200) THEN [label |-> "NEUTRAL", emoji |-> "neutral"]
    ELSE IF Ge(change, -500) THEN [label |-> "PESSIMISTIC", emoji |-> "worried"]
    ELSE [label |-> "PANIC", emoji |-> "chart"]

getAction(change) ==
    IF Ge(change, 500) THEN "WAIT"
    ELSE IF Ge(change, 200) THEN "OBSERVE"
    ELSE IF Ge(change, -200) THEN "NEUTRAL"
    ELSE IF Ge(change, -500) THEN "MONITOR"
    ELSE "POTENTIAL_ENTRY"

\* In hundredths: 0.6, Math.min(0.6 + 0.1, 0.85), Math.min(0.6 + 0.2, 0.95).
calculateConfidence(coin) ==
    IF AbsGt(Num(coin.change), 1000) THEN 80
    ELSE IF AbsGt(Num(coin.change), 500) THEN 70
    ELSE 60

\* getRiskLevel with >= in place of > at 10.
getRiskLevel_ge(change) ==
    IF change.n > 0 /\ Abs(change.sum) >= 1000 * change.n THEN "EXTREME"
    ELSE IF AbsGt(change, 500) THEN "HIGH"
    ELSE IF AbsGt(change, 200) THEN "MEDIUM"
    ELSE "LOW"

getRiskLevel(change) ==
    IF AbsGt(change, 1000) THEN "EXTREME"
    ELSE IF AbsGt(change, 500) THEN "HIGH"
    ELSE IF AbsGt(change, 200) THEN "MEDIUM"
    ELSE "LOW"

identifyMarketPhase(avgChange, coins) ==
    LET positives == Len(SelectSeq(coins, LAMBDA c : c.change > 0))
        negatives == Len(SelectSeq(coins, LAMBDA c : c.change < 0))
    IN
    IF positives = negatives THEN "ACCUMULATION"
    ELSE IF positives > negatives /\ Gt(avgChange, 200) THEN "EXPANSION"
    ELSE IF negatives > positives /\ Lt(avgChange, -200) THEN "DISTRIBUTION"
    ELSE "CONSOLIDATION"

\* The insights, each named by what it says.
generateInsights(coins) ==
    LET btcs   == SelectSeq(coins, LAMBDA c : c.symbol = "BTC/USDT")
        hasBtc == btcs # <<>>
        btc    == IF hasBtc THEN Head(btcs) ELSE Null
        alts   == SelectSeq(coins, LAMBDA c : c.symbol # "BTC/USDT")
        avgAlt == Average(alts)
        highVol == SelectSeq(coins, LAMBDA c : Abs(c.change) > 500)
        lead   == IF hasBtc /\ btc.change > 300 THEN <<"BTC leading">>
                  ELSE IF hasBtc /\ btc.change < -300 THEN <<"BTC weakness">>
                  ELSE <<>>
        alt    == IF hasBtc /\ avgAlt.n > 0
                     /\ avgAlt.sum > (btc.change + 200) * avgAlt.n
                  THEN <<"Alt season signal">> ELSE <<>>
        vol    == IF Len(highVol) > 0 THEN <<"High volatility">> ELSE <<>>
        insights == lead \o alt \o vol
    IN
    IF Len(insights) > 0 THEN insights ELSE <<"Market stability observed">>

\* Math.round(price / 1000), price in hundredths.
RoundThousands(price) == (price + 50000) \div 100000

----------------------------------------------------------------------------
(* src/unnamed/part_000, src/unnamed/part_001: helper functions *)

getSentiment_part_000(change) ==
    IF Ge(change, 500) THEN [label |-> "EUPHORIA", emoji |-> ""]
    ELSE IF Ge(change, 200) THEN [label |-> "OPTIMISTIC", emoji |-> ""]
    ELSE IF Ge(change, -200) THEN [label |-> "NEUTRAL", emoji |-> ""]
    ELSE IF Ge(change, -500) THEN [label |-> "PESSIMISTIC", emoji |-> ""]
    ELSE [label |-> "PANIC", emoji |-> ""]

\* getSentiment of part_001 with > in place of >= at 5.
getSentiment_part_001_gt(c) ==
    IF Gt(c, 500) THEN [label |-> "EUPHORIA", emoji |-> ""]
    ELSE IF Ge(c, 200) THEN [label |-> "OPTIMISTIC", emoji |-> ""]
    ELSE IF Ge(c, -200) THEN [label |-> "NEUTRAL", emoji |-> ""]
    ELSE IF Ge(c, -500) THEN [label |-> "PESSIMISTIC", emoji |-> ""]
    ELSE [label |-> "PANIC", emoji |-> ""]

getSentiment_part_001(c) ==
    IF Ge(c, 500) THEN [label |-> "EUPHORIA", emoji |-> ""]
    ELSE IF Ge(c, 200) THEN [label |-> "OPTIMISTIC", emoji |-> ""]
    ELSE IF Ge(c, -200) THEN [label |-> "NEUTRAL", emoji |-> ""]
    ELSE IF Ge(c, -500) THEN [label |-> "PESSIMISTIC", emoji |-> ""]
    ELSE [label |-> "PANIC", emoji |-> ""]

\* fetchBinance(symbol) of part_000 and of part_001 (the same code).
fetchBinance(symbol, o) ==
    IF o.kind = "ticker"
    THEN [symbol |-> symbol, price |-> o.lastPrice, change |-> o.priceChangePercent]
    ELSE IF o.kind = "nofields"
    THEN [symbol |-> symbol, price |-> 0, change |-> 0]
    ELSE Null

----------------------------------------------------------------------------
(* The snapshot responders: dispatch *)

\* A responder either answers at once or first fetches symbols: awaited one
\* at a time ("each") or together with Promise.all ("all").
Respond(status, acao, body) ==
    [respond |-> TRUE, resp |-> [status |-> status, acao |-> acao, body |-> body]]
Fetch(route, symbols, mode) ==
    [respond |-> FALSE, route |-> route, symbols |-> symbols, mode |-> mode]

\* a || b for a fetched record a
OrElse(a, b) == IF a = Null THEN b ELSE a

exports_dispatch_noOptions(method, path) ==
    IF path = Root \/ path = Empty
    THEN Respond(200, TRUE, [kind |-> "info"])
    ELSE IF path = Api("status") \/ path = Slash("status")
    THEN Fetch("status", <<"BTC/USDT", "ETH/USDT", "SOL/USDT">>, "each")
    ELSE IF path = Api("market") \/ path = Slash("market")
    THEN Fetch("market", <<"BTC/USDT", "ETH/USDT", "SOL/USDT", "BNB/USDT">>, "all")
    ELSE IF path = Api("signals") \/ path = Slash("signals")
    THEN Fetch("signals", <<"BTC/USDT", "ETH/USDT", "SOL/USDT">>, "all")
    ELSE IF path = Api("analysis") \/ path = Slash("analysis")
    THEN Fetch("analysis",
               <<"BTC/USDT", "ETH/USDT", "SOL/USDT", "BNB/USDT", "XRP/USDT">>, "all")
    ELSE IF path = Api("config") \/ path = Slash("config")
    THEN Respond(200, TRUE, [kind |-> "config"])
    ELSE Respond(404, TRUE, [kind |-> "error", error |-> "NOT_OBSERVED"])

\* handler.js, the async function first assigned to module.exports: the
\* code up to the first await or response of each route.
exports_dispatch(method, path) ==
    IF method = "OPTIONS"
    THEN Respond(200, TRUE, [kind |-> "end"])
    ELSE IF path = Root \/ path = Empty
    THEN Respond(200, TRUE, [kind |-> "info"])
    ELSE IF path = Api("status") \/ path = Slash("status")
    THEN Fetch("status", <<"BTC/USDT", "ETH/USDT", "SOL/USDT">>, "each")
    ELSE IF path = Api("market") \/ path = Slash("market")
    THEN Fetch("market", <<"BTC/USDT", "ETH/USDT", "SOL/USDT", "BNB/USDT">>, "all")
    ELSE IF path = Api("signals") \/ path = Slash("signals")
    THEN Fetch("signals", <<"BTC/USDT", "ETH/USDT", "SOL/USDT">>, "all")
    ELSE IF path = Api("analysis") \/ path = Slash("analysis")
    THEN Fetch("analysis",
               <<"BTC/USDT", "ETH/USDT", "SOL/USDT", "BNB/USDT", "XRP/USDT">>, "all")
    ELSE IF path = Api("config") \/ path = Slash("config")
    THEN Respond(200, TRUE, [kind |-> "config"])
    ELSE Respond(404, TRUE, [kind |-> "error", error |-> "NOT_OBSERVED"])

\* The signal of one fetched coin.
SignalOf(coin) ==
    [symbol     |-> coin.symbol,
     action     |-> getAction(Num(coin.change)),
     confidence |-> calculateConfidence(coin),
     risk_level |-> getRiskLevel(Num(coin.change))]

RECURSIVE MapSignals(_)
MapSignals(coins) ==
    IF coins = <<>> THEN <<>> ELSE <<SignalOf(Head(coins))>> \o MapSignals(Tail(coins))

exports_status_noFallback(g) ==
    [status |-> 200, acao |-> TRUE,
     body |-> [kind |-> "status",
               market |-> [btc |-> g["BTC/USDT"],
                           eth |-> g["ETH/USDT"],
                           sol |-> g["SOL/USDT"]],
               data_source |-> IF g["BTC/USDT"] # Null THEN "live" ELSE "fallback",
               sentiment |-> "Neutral"]]

\* handler.js, /api/status once btc, eth and sol are fetched.
exports_status(g) ==
    [status |-> 200, acao |-> TRUE,
     body |-> [kind |-> "status",
               market |-> [btc |-> OrElse(g["BTC/USDT"], [price |-> 6944300, change |-> -141]),
                           eth |-> OrElse(g["ETH/USDT"], [price |-> 209600, change |-> 180]),
                           sol |-> OrElse(g["SOL/USDT"], [price |-> 8771, change |-> 39])],
               data_source |-> IF g["BTC/USDT"] # Null THEN "live" ELSE "fallback",
               sentiment |-> "Neutral"]]

\* handler.js, /api/market once the four fetches are in.
exports_market(g) ==
    LET btc == g["BTC/USDT"]
        eth == g["ETH/USDT"]
        sol == g["SOL/USDT"]
        bnb == g["BNB/USDT"]
        coins == FilterBoolean(<<btc, eth, sol, bnb>>)
        avgChange == Average(coins)
    IN
    [status |-> 200, acao |-> TRUE,
     body |-> [kind |-> "market",
               market_sentiment |-> getSentiment(avgChange),
               coins |-> [BTC |-> OrElse(btc, [symbol |-> "BTC/USDT", price |-> 6944300, change |-> -141]),
                          ETH |-> OrElse(eth, [symbol |-> "ETH/USDT", price |-> 209600, change |-> 180]),
                          SOL |-> OrElse(sol, [symbol |-> "SOL/USDT", price |-> 8771, change |-> 39]),
                          BNB |-> OrElse(bnb, [symbol |-> "BNB/USDT", price |-> 53400, change |-> 12])],
               analysis |-> [trend |-> IF Gt(avgChange, 0) THEN "UPTREND"
                                       ELSE IF Lt(avgChange, 0) THEN "DOWNTREND"
                                       ELSE "SIDEWAYS",
                             volatility |-> "MODERATE",
                             recommendation |-> IF Gt(avgChange, 300) THEN "CAUTIOUSLY_BULLISH"
                                                ELSE IF Lt(avgChange, -300) THEN "RISK_AWARE"
                                                ELSE "NEUTRAL"]]]

\* handler.js, /api/signals once the three fetches are in: a coin whose
\* fetch gave null is skipped.
exports_signals(g) ==
    LET signals == MapSignals(FilterBoolean(<<g["BTC/USDT"], g["ETH/USDT"], g["SOL/USDT"]>>))
    IN
    [status |-> 200, acao |-> TRUE,
     body |-> [kind |-> "signals",
               total_signals |-> Len(signals),
               signals |-> signals,
               disclaimer |-> "OBSERVATIONS ONLY. NOT FINANCIAL ADVICE. DYOR."]]

\* handler.js, /api/analysis once the five fetches are in.
exports_analysis(g) ==
    LET btc == g["BTC/USDT"]
        coins == FilterBoolean(<<btc, g["ETH/USDT"], g["SOL/USDT"], g["BNB/USDT"], g["XRP/USDT"]>>)
        avgChange == Average(coins)
        trend == IF Gt(avgChange, 200) THEN "BULLISH"
                 ELSE IF Lt(avgChange, -200) THEN "BEARISH"
                 ELSE "NEUTRAL"
    IN
    [status |-> 200, acao |-> TRUE,
     body |-> [kind |-> "analysis",
               summary |-> [market_phase |-> identifyMarketPhase(avgChange, coins),
                            dominant_trend |-> trend,
                            key_level |-> RoundThousands(
                                IF btc = Null \/ btc.price = 0 THEN 6944300 ELSE btc.price)],
               technical |-> [trend |-> trend,
                              momentum |-> IF Gt(avgChange, 0) THEN "ACCUMULATING"
                                           ELSE "DISTRIBUTING",
                              volatility |-> IF \E i \in 1..Len(coins) : Abs(coins[i].change) > 500
                                             THEN "HIGH" ELSE "NORMAL"],
               risk |-> [overall |-> IF AbsGt(avgChange, 500) THEN "HIGH"
                                      ELSE IF AbsGt(avgChange, 200) THEN "MEDIUM"
                                      ELSE "LOW",
                         btc_correlation |-> "STRONG",
                         sentiment_risk |-> "MODERATE"],
               insights |-> generateInsights(coins),
               recommendation |-> [short_term |-> IF Gt(avgChange, 300) THEN "OBSERVE_ONLY"
                                                  ELSE IF Lt(avgChange, -500) THEN "POTENTIAL_ENTRY"
                                                  ELSE "NEUTRAL",
                                   mid_term |-> "ACCUMULATE_ON_DIPS",
                                   long_term |-> "HOLD_STRONG_HANDS"]]]

exports_finish(route, g) ==
    IF route = "status" THEN exports_status(g)
    ELSE IF route = "market" THEN exports_market(g)
    ELSE IF route = "signals" THEN exports_signals(g)
    ELSE exports_analysis(g)

handler_notFound(method, path) ==
    IF path = Root \/ path = Slash("health")
    THEN Respond(200, TRUE, [kind |-> "health", status |-> "ok"])
    ELSE IF path = Api("status") \/ path = Slash("status")
    THEN Respond(200, TRUE,
                 [kind |-> "status",
                  market |-> [BTC |-> [price |-> 6944300, change |-> -141],
                              ETH |-> [price |-> 209600, change |-> 180],
                              SOL |-> [price |-> 8771, change |-> 39]],
                  sentiment |-> "NEUTRAL"])
    ELSE IF path = Api("signals") \/ path = Slash("signals")
    THEN Respond(200, TRUE,
                 [kind |-> "signals",
                  signals |-> <<[symbol |-> "BTC/USDT", action |-> "NEUTRAL", risk |-> "LOW"]>>])
    ELSE Respond(404, TRUE, [kind |-> "error", error |-> "NOT_FOUND"])

\* handler.js, function handler (the value module.exports ends up with): it
\* fetches nothing and tests no method.
handler(method, path) ==
    IF path = Root \/ path = Slash("health")
    THEN Respond(200, TRUE, [kind |-> "health", status |-> "ok"])
    ELSE IF path = Api("status") \/ path = Slash("status")
    THEN Respond(200, TRUE,
                 [kind |-> "status",
                  market |-> [BTC |-> [price |-> 6944300, change |-> -141],
                              ETH |-> [price |-> 209600, change |-> 180],
                              SOL |-> [price |-> 8771, change |-> 39]],
                  sentiment |-> "NEUTRAL"])
    ELSE IF path = Api("signals") \/ path = Slash("signals")
    THEN Respond(200, TRUE,
                 [kind |-> "signals",
                  signals |-> <<[symbol |-> "BTC/USDT", action |-> "NEUTRAL", risk |-> "LOW"]>>])
    ELSE Respond(200, TRUE, [kind |-> "endpoints"])

\* part_000: the code up to the first await or response of each route.
part_000_dispatch(method, path) ==
    IF method = "OPTIONS"
    THEN Respond(200, TRUE, [kind |-> "end"])
    ELSE IF path = Root \/ path = Empty
    THEN Respond(200, TRUE, [kind |-> "html"])
    ELSE IF StartsWithApi(path)
    THEN IF path = Api("status") \/ path = Slash("status")
         THEN Fetch("status", <<"BTC/USDT", "ETH/USDT", "SOL/USDT">>, "each")
         ELSE IF path = Api("analysis") \/ path = Slash("analysis")
         THEN Fetch("analysis", <<"BTC/USDT">>, "each")
         ELSE IF path = Api("signals") \/ path = Slash("signals")
         THEN Respond(200, TRUE,
                      [kind |-> "signals",
                       signals |-> <<[symbol |-> "BTC/USDT", action |-> "NEUTRAL",
                                      risk_level |-> "LOW", confidence |-> 60]>>])
         ELSE Respond(404, TRUE, [kind |-> "error", error |-> "NOT_FOUND"])
    ELSE Respond(404, TRUE, [kind |-> "error", error |-> "NOT_FOUND"])

\* part_000, /api/status and /api/analysis once the fetches are in.
part_000_finish(route, g) ==
    IF route = "status"
    THEN [status |-> 200, acao |-> TRUE,
          body |-> [kind |-> "status",
                    market |-> [BTC |-> g["BTC/USDT"], ETH |-> g["ETH/USDT"],
                                SOL |-> g["SOL/USDT"]],
                    status |-> [market_sentiment |->
                                  getSentiment_part_000(Num(ChangeOrZero(g["BTC/USDT"])))]]]
    ELSE LET change == Num(ChangeOrZero(g["BTC/USDT"])) IN
         [status |-> 200, acao |-> TRUE,
          body |-> [kind |-> "analysis",
                    summary |-> [market_phase |-> "ACCUMULATION",
                                 dominant_trend |-> IF Gt(change, 200) THEN "BULLISH"
                                                    ELSE IF Lt(change, -200) THEN "BEARISH"
                                                    ELSE "NEUTRAL"],
                    risk |-> [overall |-> IF AbsGt(change, 500) THEN "HIGH"
                                           ELSE IF AbsGt(change, 200) THEN "MEDIUM"
                                           ELSE "LOW"]]]

\* part_001: the code up to the first await or response.
part_001_dispatch(method, path) ==
    IF path = Root
    THEN Respond(200, TRUE, [kind |-> "html"])
    ELSE IF StartsWithApi(path)
    THEN Fetch("status", <<"BTC/USDT", "ETH/USDT", "SOL/USDT">>, "each")
    ELSE Respond(404, TRUE, [kind |-> "error", error |-> "NOT_FOUND"])

\* part_001, any /api/ path once the three fetches are in.
part_001_finish(route, g) ==
    [status |-> 200, acao |-> TRUE,
     body |-> [kind |-> "status",
               market |-> [BTC |-> g["BTC/USDT"], ETH |-> g["ETH/USDT"],
                           SOL |-> g["SOL/USDT"]],
               status |-> [market_sentiment |->
                             getSentiment_part_001(Num(ChangeOrZero(g["BTC/USDT"])))]]]

Dispatch(variant, method, path) ==
    IF variant = "handler.js:exports" THEN exports_dispatch(method, path)
    ELSE IF variant = "handler.js:handler" THEN handler(method, path)
    ELSE IF variant = "part_000" THEN part_000_dispatch(method, path)
    ELSE part_001_dispatch(method, path)

Finish(variant, route, g) ==
    IF variant = "handler.js:exports" THEN exports_finish(route, g)
    ELSE IF variant = "part_000" THEN part_000_finish(route, g)
    ELSE part_001_finish(route, g)

Fetcher(variant, symbol, o) ==
    IF variant = "handler.js:exports" THEN fetchBinanceData(symbol, o)
    ELSE fetchBinance(symbol, o)

----------------------------------------------------------------------------
(* The snapshot responders: one request at a time (requests share nothing) *)

\* A request arrives and the responder runs to its first await or to its
\* response.
Receive ==
    /\ UNCHANGED <<botVars, pureVars>>
    /\ phase = "idle"
    /\ \E v \in Variants, m \in Methods, u \in Urls :
         LET plan == Dispatch(v, m, PathOf(u)) IN
         /\ req' = [variant |-> v, method |-> m, url |-> u]
         /\ got' = <<>>
         /\ IF plan.respond
            THEN /\ phase' = "done"
                 /\ resp' = [status |-> plan.resp.status, acao |-> plan.resp.acao,
                             body |-> plan.resp.body, fetched |-> 0]
                 /\ todo' = <<>>
                 /\ inflight' = {}
            ELSE /\ phase' = "fetching"
                 /\ resp' = [status |-> 0]
                 /\ IF plan.mode = "all"
                    THEN /\ inflight' = {plan.symbols[i] : i \in 1..Len(plan.symbols)}
                         /\ todo' = <<>>
                    ELSE /\ inflight' = {Head(plan.symbols)}
                         /\ todo' = Tail(plan.symbols)

\* A fetch settles.  The responder resumes when what it awaits is in: it
\* starts the next fetch, or builds the response.
FetchDone(symbol) ==
    /\ UNCHANGED <<botVars, pureVars>>
    /\ phase = "fetching"
    /\ symbol \in inflight
    /\ \E o \in FetchOutcomes :
         LET r    == Fetcher(req.variant, symbol, o)
             g    == [s \in DOMAIN got \cup {symbol} |-> IF s = symbol THEN r ELSE got[s]]
             plan == Dispatch(req.variant, req.method, PathOf(req.url))
             out  == Finish(req.variant, plan.route, g)
         IN
         IF "rejected" \in DOMAIN r
         THEN /\ phase' = "threw"
              /\ UNCHANGED <<req, todo, inflight, got, resp>>
         ELSE /\ got' = g
              /\ req' = req
              /\ IF todo # <<>>
                 THEN /\ inflight' = {Head(todo)}
                      /\ todo' = Tail(todo)
                      /\ UNCHANGED <<phase, resp>>
                 ELSE /\ inflight' = inflight \ {symbol}
                      /\ todo' = todo
                      /\ IF inflight = {symbol}
                         THEN /\ phase' = "done"
                              /\ resp' = [status |-> out.status, acao |-> out.acao,
                                          body |-> out.body,
                                          fetched |-> Cardinality(DOMAIN g)]
                         ELSE UNCHANGED <<phase, resp>>

\* The responder has returned (or thrown); nothing of the request is kept.
Return ==
    /\ UNCHANGED <<botVars, pureVars>>
    /\ phase \in {"done", "threw"}
    /\ phase' = "idle"
    /\ req' = [variant |-> "", method |-> "", url |-> [defined |-> FALSE]]
    /\ todo' = <<>>
    /\ inflight' = {}
    /\ got' = <<>>
    /\ resp' = [status |-> 0]

ApiNext ==
    \/ Receive
    \/ \E s \in inflight : FetchDone(s)
    \/ Return

----------------------------------------------------------------------------
(* formatMessage on its own *)

\* formatMessage(coin, data) is called, once, with some coin and change.
\* (The price is printed as it is and decides nothing.)
Format ==
    /\ UNCHANGED <<botVars, apiVars, cls>>
    /\ fmt.coin = ""
    /\ \E i \in 1..Len(Coins), change \in -MaxChange..MaxChange :
         fmt' = [coin |-> Coins[i], change |-> change,
                 text |-> formatMessage(Coins[i], change)]

FormatNext == Format

----------------------------------------------------------------------------
(* The classifiers on their own *)

\* Values a second argument is taken from, besides the value one hundredth
\* above the first.
Probes == {-501, -500, -201, -200, 0, 199, 200, 499, 500}

\* getSentiment (all three copies), getAction and getRiskLevel are called,
\* once, with some change; the three getSentiment are called with a second
\* value too.  The change is NaN (the average of no coins) or a number.
Classify ==
    /\ UNCHANGED <<botVars, apiVars, fmt>>
    /\ ~cls.done
    /\ \E change \in {NaN} \cup {Num(c) : c \in -MaxSwing..MaxSwing} :
         \E other \in IF change.n = 0 THEN {NaN}
                       ELSE {Num(change.sum + 1)} \cup {Num(c) : c \in Probes} :
           cls' = [done |-> TRUE, change |-> change, other |-> other,
                   handler |-> getSentiment(change),
                   part_000 |-> getSentiment_part_000(change),
                   part_001 |-> getSentiment_part_001(change),
                   otherHandler |-> getSentiment(other),
                   otherPart_000 |-> getSentiment_part_000(other),
                   otherPart_001 |-> getSentiment_part_001(other),
                   action |-> getAction(change),
                   risk |-> getRiskLevel(change)]

ClassifyNext == Classify

----------------------------------------------------------------------------
(* Specifications *)

\* The classifiers applied to arbitrary changes.
SpecClassify == Init /\ [][ClassifyNext]_vars

\* formatMessage applied to arbitrary records.
SpecFormat == Init /\ [][FormatNext]_vars

\* The alert loop.
Spec == Init /\ [][BotNext]_vars

\* The snapshot responders.
SpecApi == Init /\ [][ApiNext]_vars

----------------------------------------------------------------------------
(* The alert loop: claims *)

\* C1: a checkAlert call returns true for a key only when no cooldown of
\* that key is running, that is, no earlier call returned true for the key
\* without the key's unarm timer having run since.
C1_NoAlertWhileCooling ==
    (ev.kind = "call" /\ ev.ret) => ev.armerBefore = 0

\* A qualifying change arrives for a key whose cooldown is running, and
\* checkAlert returns false.
C1_Witness ==
    /\ ev.kind = "call"
    /\ Abs(ev.change) >= alertPercent
    /\ ev.armerBefore # 0
    /\ ~ev.ret

\* C2: once the cooldown of a key has run out (its unarm timer has run and
\* none is pending), a checkAlert call for that key with
\* abs(change) >= alertPercent returns true and leaves the entry armed.
C2_RearmAfterCooldown ==
    (/\ ev.kind = "call"
     /\ ev.elapsed
     /\ ev.pending = 0
     /\ Abs(ev.change) >= alertPercent)
    => (ev.ret /\ ev.armedAfter /\ Truthy(lastAlert, ev.key))

\* A key whose cooldown has run out is armed again by a change of exactly
\* alertPercent.
C2_Witness ==
    /\ ev.kind = "call"
    /\ ev.elapsed
    /\ Abs(ev.change) = alertPercent
    /\ ev.ret
    /\ Truthy(lastAlert, ev.key)

\* C3: an entry is true exactly while one unarm timer of its key is pending,
\* no key ever has two pending unarm timers, and an unarm timer that runs
\* finds the entry armed by the arm that scheduled it.
C3_OneDisarmPerArm ==
    /\ \A k \in Keys : Truthy(lastAlert, k) <=> Cardinality(Pending(k)) = 1
    /\ \A k \in Keys : Cardinality(Pending(k)) <= 1
    /\ ev.kind = "fire" => (ev.armed /\ ev.armer = ev.by)

\* An unarm timer has just run for a key while another key is still armed.
C3_Witness ==
    /\ ev.kind = "fire"
    /\ ~Truthy(lastAlert, ev.key)
    /\ \E k \in Keys : Truthy(lastAlert, k) /\ Cardinality(Pending(k)) = 1

\* C4: sendTelegram returns true exactly when the delivery succeeded and
\* never throws; neither main() nor an interval callback is aborted, and
\* after a failed alert send the callback is back in its loop at the next
\* symbol.
C4_SendNeverRaises ==
    /\ mainPc # "aborted"
    /\ \A t \in Ticks : pc[t] # "aborted"
    /\ ev.kind = "send" => (~ev.thrown /\ (ev.ret <=> ev.outcome = "ok"))
    /\ (ev.kind = "send" /\ ev.what = "alert")
       => (/\ pc[ev.tick] = "loop"
           /\ running = ev.tick
           /\ idx[ev.tick] = ev.idxBefore + 1)
    /\ (ev.kind = "send" /\ ev.what = "startup") => mainPc = "running"

\* An alert send for the first symbol has failed and the callback goes on
\* to the symbols that remain.
C4_Witness ==
    /\ ev.kind = "send"
    /\ ev.what = "alert"
    /\ ev.outcome = "error"
    /\ ~ev.ret
    /\ pc[ev.tick] = "loop"
    /\ idx[ev.tick] = 2

\* C5: within one cooldown of a key exactly one alert send is started for
\* it (none while the key is not cooling), and a send that returns, failed
\* or not, leaves the cooldown table as it is.
C5_NoRedelivery ==
    /\ [](\A k \in Keys : attempts[k] = IF armer[k] # 0 THEN 1 ELSE 0)
    /\ [][ev'.kind = "send" => lastAlert' = lastAlert]_vars

\* An alert send has failed; its key is still armed and has had its one
\* attempt.
C5_Witness ==
    /\ ev.kind = "send"
    /\ ev.what = "alert"
    /\ ~ev.ret
    /\ Truthy(lastAlert, ev.key)
    /\ attempts[ev.key] = 1

----------------------------------------------------------------------------
(* The snapshot responders: claims *)

ReqPath == PathOf(req.url)

Tickers == {"BTC/USDT", "ETH/USDT", "SOL/USDT"}

\* The documented fallback record of a symbol.
Fallback(symbol) ==
    IF symbol = "BTC/USDT" THEN [price |-> 6944300, change |-> -141]
    ELSE IF symbol = "ETH/USDT" THEN [price |-> 209600, change |-> 180]
    ELSE [price |-> 8771, change |-> 39]

Omitted == [omitted |-> TRUE]

\* A response body's entry for a symbol: its record under market or coins,
\* its signal under signals, Omitted when the body has none.
Entry(body, symbol) ==
    LET upper == IF symbol = "BTC/USDT" THEN "BTC"
                 ELSE IF symbol = "ETH/USDT" THEN "ETH" ELSE "SOL"
        lower == IF symbol = "BTC/USDT" THEN "btc"
                 ELSE IF symbol = "ETH/USDT" THEN "eth" ELSE "sol"
    IN
    IF body.kind = "status"
    THEN IF upper \in DOMAIN body.market THEN body.market[upper]
         ELSE IF lower \in DOMAIN body.market THEN body.market[lower]
         ELSE Omitted
    ELSE IF body.kind = "market"
    THEN IF upper \in DOMAIN body.coins THEN body.coins[upper] ELSE Omitted
    ELSE IF body.kind = "signals"
    THEN LET mine == SelectSeq(body.signals, LAMBDA x : x.symbol = symbol) IN
         IF mine = <<>> THEN Omitted ELSE Head(mine)
    ELSE Omitted

IsFallback(entry, symbol) ==
    /\ entry # Null
    /\ entry # Omitted
    /\ {"price", "change"} \subseteq DOMAIN entry
    /\ entry.price = Fallback(symbol).price
    /\ entry.change = Fallback(symbol).change

FetchedNull == {s \in Tickers \cap DOMAIN got : got[s] = Null}

Sentiments == {"EUPHORIA", "OPTIMISTIC", "NEUTRAL", "PESSIMISTIC", "PANIC"}

\* A body of one of the four data shapes whose fields hold values of their
\* kind.
WellFormed(body) ==
    IF body.kind = "status"
    THEN /\ DOMAIN body.market \in {{"btc", "eth", "sol"}, {"BTC", "ETH", "SOL"}}
         /\ "status" \in DOMAIN body => body.status.market_sentiment.label \in Sentiments
         /\ "data_source" \in DOMAIN body => body.data_source \in {"live", "fallback"}
    ELSE IF body.kind = "market"
    THEN /\ body.market_sentiment.label \in Sentiments
         /\ DOMAIN body.coins = {"BTC", "ETH", "SOL", "BNB"}
         /\ \A k \in DOMAIN body.coins : body.coins[k] # Null
         /\ body.analysis.trend \in {"UPTREND", "DOWNTREND", "SIDEWAYS"}
         /\ body.analysis.recommendation \in {"CAUTIOUSLY_BULLISH", "RISK_AWARE", "NEUTRAL"}
    ELSE IF body.kind = "signals"
    THEN /\ "total_signals" \in DOMAIN body => body.total_signals = Len(body.signals)
         /\ \A i \in 1..Len(body.signals) :
              body.signals[i].action \in
                {"WAIT", "OBSERVE", "NEUTRAL", "MONITOR", "POTENTIAL_ENTRY"}
    ELSE IF body.kind = "analysis"
    THEN /\ body.summary.dominant_trend \in {"BULLISH", "BEARISH", "NEUTRAL"}
         /\ body.summary.market_phase \in
              {"ACCUMULATION", "EXPANSION", "DISTRIBUTION", "CONSOLIDATION"}
         /\ body.risk.overall \in {"HIGH", "MEDIUM", "LOW"}
         /\ "insights" \in DOMAIN body => Len(body.insights) > 0
         /\ "key_level" \in DOMAIN body.summary => body.summary.key_level > 0
    ELSE FALSE

ClaimedPaths ==
    {Root, Slash("health"), Api("status"), Api("market"), Api("signals"),
     Api("analysis"), Api("config")}

IsNotFound(r, error) ==
    r.status = 404 /\ r.body.kind = "error" /\ r.body.error = error

Aliases == {Slash("status"), Slash("market"), Slash("signals"), Slash("analysis"),
            Slash("config")}

C9_Original ==
    phase = "done" =>
      /\ resp.acao
      /\ req.method = "OPTIONS"
         => (resp.status = 200 /\ resp.body.kind = "end" /\ resp.fetched = 0)

\* C9, amended: every response carries Access-Control-Allow-Origin: *; the
\* handler.js responder of lines 10-214 and part_000 answer an OPTIONS
\* request with 200 and no body before dispatch and with no fetch; function
\* handler and part_001 have no OPTIONS branch: handler answers 200 by its
\* routes and fetches nothing, part_001 fetches the three symbols on an
\* /api/ path and answers 404 on a path it does not route.
C9_CorsPerResponder ==
    phase = "done" =>
      /\ resp.acao
      /\ (req.method = "OPTIONS" /\ req.variant \in {"handler.js:exports", "part_000"})
         => (resp.status = 200 /\ resp.body.kind = "end" /\ resp.fetched = 0)
      /\ (req.method = "OPTIONS" /\ req.variant = "handler.js:handler")
         => (resp.status = 200 /\ resp.body.kind # "end" /\ resp.fetched = 0)
      /\ (req.method = "OPTIONS" /\ req.variant = "part_001")
         => /\ StartsWithApi(ReqPath) => (resp.status = 200 /\ resp.fetched = 3)
            /\ (ReqPath # Root /\ ~StartsWithApi(ReqPath)) => resp.status = 404

\* OPTIONS /api/status has been answered by the handler.js responder: 200,
\* no body, no fetch.
C9_Witness ==
    /\ phase = "done"
    /\ req.method = "OPTIONS"
    /\ req.variant = "handler.js:exports"
    /\ ReqPath = Api("status")
    /\ resp.acao
    /\ resp.status = 200
    /\ resp.body.kind = "end"
    /\ resp.fetched = 0

----------------------------------------------------------------------------
(* formatMessage: claims *)

\* C10: with the thresholds 3 and 5, formatMessage gives the alert label
\* when abs(change) >= 5, the warning label when 3 <= abs(change) < 5 and
\* the normal label otherwise.
C10_ThreeTiers ==
    fmt.coin # "" =>
      /\ fmt.text.status \in {"alert", "warning", "normal"}
      /\ Abs(fmt.change) >= 500 <=> fmt.text.status = "alert"
      /\ (Abs(fmt.change) >= 300 /\ Abs(fmt.change) < 500) <=> fmt.text.status = "warning"
      /\ Abs(fmt.change) < 300 <=> fmt.text.status = "normal"

\* A fall of exactly 3 % is formatted with the warning label.
C10_Witness ==
    /\ fmt.coin = "ETH"
    /\ fmt.change = -300
    /\ fmt.text.status = "warning"
    /\ fmt.text.emoji = "down"

----------------------------------------------------------------------------
(* The alert loop: the cooldown table, key by key *)

\* Every entry other than the one of key is the same before and after the
\* step (present with the same value, or absent).
OthersUnchanged(key) ==
    \A k \in (DOMAIN lastAlert \cup DOMAIN lastAlert') \ {key} :
        /\ k \in DOMAIN lastAlert
        /\ k \in DOMAIN lastAlert'
        /\ lastAlert'[k] = lastAlert[k]

\* C14: a checkAlert call for a key, and the unarm timer of a key, leave
\* every other entry of the table as it was; and the call returns true
\* exactly when abs(change) >= 5 and the entry of its own key is not armed,
\* whatever the other entries are.
C14_KeyIsolation ==
    [][/\ ev'.kind = "call" =>
            /\ OthersUnchanged(ev'.key)
            /\ ev'.ret <=> (Abs(ev'.change) >= alertPercent
                             /\ ~Truthy(lastAlert, ev'.key))
       /\ ev'.kind = "fire" => OthersUnchanged(ev'.key)]_vars

\* With BTC_down armed, a checkAlert call for BTC with a rise returns true:
\* both entries of BTC are armed, those of the other coins are not.
C14_Witness ==
    /\ ev.kind = "call"
    /\ ev.key = "BTC_up"
    /\ ev.ret
    /\ Truthy(lastAlert, "BTC_down")
    /\ Truthy(lastAlert, "BTC_up")
    /\ ~Truthy(lastAlert, "ETH_up")
    /\ ~Truthy(lastAlert, "ETH_down")

----------------------------------------------------------------------------
(* The alert loop: overlapping callbacks *)

\* The callbacks suspended in the send of an alert for key.
Sending(key) == {t \in Ticks : pc[t] = "awaitAlert" /\ MsgKey(msg[t]) = key}

\* C15: however the interval callbacks and the unarm timers interleave,
\* at most one alert send is started for a key between an arm and its
\* disarm, and a checkAlert call that returns true has armed the entry for
\* its own callback, which begins the send, before any other callback or
\* timer runs.
C15_OneSendPerArm ==
    /\ \A k \in Keys : attempts[k] <= 1
    /\ (ev.kind = "call" /\ ev.ret) =>
          /\ Truthy(lastAlert, ev.key)
          /\ armer[ev.key] = ev.tick
          /\ ev.tick \in Sending(ev.key)
          /\ running = 0

\* While the first callback is suspended in the send of an alert for a key,
\* the second callback calls checkAlert for the same key and gets false.
C15_Witness ==
    /\ ev.kind = "call"
    /\ ev.tick = 2
    /\ ~ev.ret
    /\ Abs(ev.change) >= alertPercent
    /\ Sending(ev.key) = {1}
    /\ attempts[ev.key] = 1

----------------------------------------------------------------------------
(* The alert loop: the summary *)

\* C13 as stated: a callback that finds the minute 0 or 30 sends the
\* summary and has sent no alert; one that finds any other minute sends no
\* summary.
C13_Original ==
    ev.kind = "exit" =>
      /\ ev.minute \in {0, 30} => (pc[ev.tick] = "awaitSummary" /\ ~ev.alertSent)
      /\ ev.minute \notin {0, 30} => pc[ev.tick] # "awaitSummary"

\* C13: a callback reads the minute once, after its alerts have been sent;
\* it then sends the summary if the minute is 0 or 30, whether or not it
\* has sent alerts, and returns without a summary at any other minute.
C13_SummaryAfterAlerts ==
    ev.kind = "exit" =>
      /\ ev.minute \in {0, 30} => pc[ev.tick] = "awaitSummary"
      /\ ev.minute \notin {0, 30} => pc[ev.tick] = "done"

\* A callback that has sent an alert finds the minute 30 and sends the
\* summary as well.
C13_Witness ==
    /\ ev.kind = "exit"
    /\ ev.minute = 30
    /\ ev.alertSent
    /\ pc[ev.tick] = "awaitSummary"

----------------------------------------------------------------------------
(* The classifiers: claims *)

Labels == <<"PANIC", "PESSIMISTIC", "NEUTRAL", "OPTIMISTIC", "EUPHORIA">>

\* The position of a label in Labels, 0 for anything else.
Rank(label) ==
    IF \E i \in 1..Len(Labels) : Labels[i] = label
    THEN CHOOSE i \in 1..Len(Labels) : Labels[i] = label
    ELSE 0

Breakpoints == {-500, -200, 200, 500}

\* Two results for two numbers are in the order of the numbers, and differ
\* exactly when a breakpoint lies above the smaller and not above the larger.
Ordered(a, la, b, lb) ==
    /\ a <= b => Rank(la.label) <= Rank(lb.label)
    /\ b <= a => Rank(lb.label) <= Rank(la.label)
    /\ la.label # lb.label <=>
         \E p \in Breakpoints : (a < p /\ p <= b) \/ (b < p /\ p <= a)

\* C11: every copy of getSentiment gives, for every change (NaN included),
\* one of the five labels; the three copies give the same label; between
\* two numbers the label of each copy does not decrease, and it differs
\* exactly when one of -5, -2, 2, 5 separates them.
C11_TotalMonotoneAgree ==
    cls.done =>
      /\ Rank(cls.handler.label) > 0
      /\ cls.part_000.label = cls.handler.label
      /\ cls.part_001.label = cls.handler.label
      /\ cls.otherPart_000.label = cls.otherHandler.label
      /\ cls.otherPart_001.label = cls.otherHandler.label
      /\ cls.change.n > 0 =>
           /\ Ordered(cls.change.sum, cls.handler, cls.other.sum, cls.otherHandler)
           /\ Ordered(cls.change.sum, cls.part_000, cls.other.sum, cls.otherPart_000)
           /\ Ordered(cls.change.sum, cls.part_001, cls.other.sum, cls.otherPart_001)

\* 4.99 and 5 are classified OPTIMISTIC and EUPHORIA by all three copies;
\* the copy of handler.js appends an emoji to the label, the others do not.
C11_Witness ==
    /\ cls.done
    /\ cls.change = Num(499)
    /\ cls.other = Num(500)
    /\ cls.part_001.label = "OPTIMISTIC"
    /\ cls.otherPart_001.label = "EUPHORIA"
    /\ cls.otherHandler = [label |-> "EUPHORIA", emoji |-> "rocket"]
    /\ cls.otherPart_000 = [label |-> "EUPHORIA", emoji |-> ""]

\* C12: for a change greater than 5 and at most 10, getSentiment gives
\* EUPHORIA, getAction gives WAIT and getRiskLevel gives HIGH.
C12_ExtremeOptimistic ==
    (cls.done /\ cls.change.n > 0 /\ cls.change.sum > 500 /\ cls.change.sum <= 1000) =>
      /\ cls.handler.label = "EUPHORIA"
      /\ cls.action = "WAIT"
      /\ cls.risk = "HIGH"

\* The change 6.2 is classified EUPHORIA, WAIT, HIGH.
C12_Witness ==
    /\ cls.done
    /\ cls.change = Num(620)
    /\ cls.handler.label = "EUPHORIA"
    /\ cls.action = "WAIT"
    /\ cls.risk = "HIGH"
=============================================================================
